---- MODULE Spec2Model ----
(***************************************************************************)
(* Holiday Resolution Engine of calendario-web-biplaza.                    *)
(*                                                                         *)
(* Part 1 (specification Spec): the tiered source locators                 *)
(*   KNOWN_URLS -> persisted cache -> auto-discovery -> ValueError         *)
(* of BOEAutoDiscovery and of the region scrapers.  One behaviour follows  *)
(* one locator (variable loc) with its own cache file: the locators do not *)
(* share state, every one has a cache file of its own.                     *)
(***************************************************************************)
EXTENDS Integers, Sequences, FiniteSets, TLC

VARIABLES loc, mem, file, last, op,           \* the source locators
          sStyle, sKey, sPc, sLocal, sFile,    \* concurrent cache writers
          dDocs, dRun, dMes, dPending, dResult, \* the parallel BOE search
          pYear, pContent, pResult,            \* the extraction chain
          oCcaa, oPc, oStatus, oCount, oSaved, oError, oCombined,  \* the orchestrator
          mDoc, mFiltro, mLocales, mNac, mAuto, mMunicipio, mIsla, mResult, mPc, mCalls,  \* one municipality
          vAdapter, vYear, vItems, vResult, vPc,  \* scrape() of an adapter
          kYear, kPascua, kJueves, kViernes, kPc,  \* the movable feasts
          nNombre, nResuelto, nClave, nPc,  \* normalize_search of a name
          fQuery, fCandidates, fThreshold, fRapidfuzz, fBest, fEquiv, fPc,  \* the fuzzy matcher
          qOutcome, qPending, qResults, qReturn, qPc,  \* parallel_search_years
          iAdapter, iYear, iFestivos, iMetadata, iReturned, iLast, iCalls  \* one scraper instance, scrape() called again

locVars == <<loc, mem, file, last, op>>
saveVars == <<sStyle, sKey, sPc, sLocal, sFile>>
discVars == <<dDocs, dRun, dMes, dPending, dResult>>
parseVars == <<pYear, pContent, pResult>>
orchVars == <<oCcaa, oPc, oStatus, oCount, oSaved, oError, oCombined>>
muniVars == <<mDoc, mFiltro, mLocales, mNac, mAuto, mMunicipio, mIsla, mResult, mPc, mCalls>>
scrapeVars == <<vAdapter, vYear, vItems, vResult, vPc>>
pascuaVars == <<kYear, kPascua, kJueves, kViernes, kPc>>
normVars == <<nNombre, nResuelto, nClave, nPc>>
matchVars == <<fQuery, fCandidates, fThreshold, fRapidfuzz, fBest, fEquiv, fPc>>
parVars == <<qOutcome, qPending, qResults, qReturn, qPc>>
instVars == <<iAdapter, iYear, iFestivos, iMetadata, iReturned, iLast, iCalls>>
vars == <<loc, mem, file, last, op, sStyle, sKey, sPc, sLocal, sFile,
          dDocs, dRun, dMes, dPending, dResult, pYear, pContent, pResult,
          oCcaa, oPc, oStatus, oCount, oSaved, oError, oCombined,
          mDoc, mFiltro, mLocales, mNac, mAuto, mMunicipio, mIsla, mResult, mPc, mCalls,
          vAdapter, vYear, vItems, vResult, vPc,
          kYear, kPascua, kJueves, kViernes, kPc,
          nNombre, nResuelto, nClave, nPc,
          fQuery, fCandidates, fThreshold, fRapidfuzz, fBest, fEquiv, fPc,
          qOutcome, qPending, qResults, qReturn, qPc,
          iAdapter, iYear, iFestivos, iMetadata, iReturned, iLast, iCalls>>

(* What a step of one part leaves alone: the variables of the other parts. *)
notLoc == <<saveVars, discVars, parseVars, orchVars, muniVars, scrapeVars, pascuaVars,
  normVars,
  matchVars,
  parVars,
  instVars>>
notSave == <<locVars, discVars, parseVars, orchVars, muniVars, scrapeVars, pascuaVars,
  normVars,
  matchVars,
  parVars,
  instVars>>
notDisc == <<locVars, saveVars, parseVars, orchVars, muniVars, scrapeVars, pascuaVars,
  normVars,
  matchVars,
  parVars,
  instVars>>
notParse == <<locVars, saveVars, discVars, orchVars, muniVars, scrapeVars, pascuaVars,
  normVars,
  matchVars,
  parVars,
  instVars>>
notOrch == <<locVars, saveVars, discVars, parseVars, muniVars, scrapeVars, pascuaVars,
  normVars,
  matchVars,
  parVars,
  instVars>>
notMuni == <<locVars, saveVars, discVars, parseVars, orchVars, scrapeVars, pascuaVars,
  normVars,
  matchVars,
  parVars,
  instVars>>
notScrape == <<locVars, saveVars, discVars, parseVars, orchVars, muniVars, pascuaVars,
  normVars,
  matchVars,
  parVars,
  instVars>>
notPascua == <<locVars, saveVars, discVars, parseVars, orchVars, muniVars, scrapeVars,
  normVars,
  matchVars,
  parVars,
  instVars>>
notNorm == <<locVars, saveVars, discVars, parseVars, orchVars, muniVars, scrapeVars, pascuaVars,
  matchVars,
  parVars,
  instVars>>
notMatch == <<locVars, saveVars, discVars, parseVars, orchVars, muniVars, scrapeVars, pascuaVars, normVars,
  parVars,
  instVars>>
notPar == <<locVars, saveVars, discVars, parseVars, orchVars, muniVars, scrapeVars, pascuaVars, normVars, matchVars,
  instVars>>
notInst == <<locVars, saveVars, discVars, parseVars, orchVars, muniVars, scrapeVars, pascuaVars, normVars, matchVars, parVars>>

None == "None"

(* The years the model asks for: 2025 is in every KNOWN_URLS table modelled *)
(* below, 2027 is in none.                                                 *)
Years == {2025, 2027}

(* src/scrapers/discovery/boe_discovery.py:20 *)
BOE_KNOWN_URLS == (2024 :> "boe2024") @@ (2025 :> "boe2025") @@ (2026 :> "boe2026")

(* src/scrapers/ccaa/canarias/autonomicos.py:20 *)
CANARIAS_KNOWN_URLS == (2025 :> "boc2025")

(* src/scrapers/ccaa/andalucia/locales.py:15 *)
ANDALUCIA_KNOWN_URLS == (2026 :> "boja2026")

(* URLs a discovery run can come back with. *)
DiscUrls == {"u1", "u2"}

Locs == {"boe", "canarias", "andalucia", "madrid", "pais_vasco", "galicia"}

(* What a fetch of a document answers: the HTTP status, and whether the    *)
(* text holds the requested year (yr) and the anchor tokens of the         *)
(* bulletin (an).                                                          *)
RespGood      == [status |-> 200, yr |-> TRUE,  an |-> TRUE]
RespWrongYear == [status |-> 200, yr |-> FALSE, an |-> TRUE]
RespError     == [status |-> 500, yr |-> FALSE, an |-> FALSE]
Responses == {RespGood, RespWrongYear, RespError}

(* The expected document content of section 4.2: the requested year plus   *)
(* the anchor tokens, in a document that could be fetched.                 *)
ContentOK(r) == r.status = 200 /\ r.yr /\ r.an

(* A cache entry: the URL, and how the entry came to be there: "init" (in  *)
(* the file before the run), "ok" / "bad" (written by a locator, the       *)
(* document's content being the expected one or not at that moment).       *)
NoEntry == [url |-> None, origin |-> "none"]
Entry(u, r) == [url |-> u, origin |-> IF ContentOK(r) THEN "ok" ELSE "bad"]
InitEntries == {NoEntry, [url |-> "u1", origin |-> "init"]}

NoCall == [year |-> 0, outcome |-> "none", url |-> None, tier |-> "none",
           hadKnown |-> FALSE, hadCache |-> FALSE, kv |-> "na", cv |-> "na",
           disc |-> FALSE, found |-> FALSE, net |-> FALSE, saved |-> FALSE]

(* BOEAutoDiscovery.validate_url: raise_for_status, then every keyword     *)
(* ('fiestas laborales', the year, 'año nuevo') in the text.               *)
validate_url(r) == r.status = 200 /\ r.an /\ r.yr

Verdict(had, r) == IF ~had THEN "na" ELSE IF validate_url(r) THEN "ok" ELSE "fail"

(* BOEAutoDiscovery.get_url: what one call decides.  m is self.cached_urls;*)
(* rk, rc, rd are what the fetches of the Known, the cached and the        *)
(* discovered URL answer; d is what _try_auto_discovery returns.           *)
BOE_get_url_result(m, y, try, rk, rc, d, rd) ==
  LET hadKnown == y \in DOMAIN BOE_KNOWN_URLS
      kv       == Verdict(hadKnown, rk)
      hadCache == m[y] # NoEntry
      cv       == Verdict(kv # "ok" /\ hadCache, rc)
      disc     == kv # "ok" /\ cv # "ok" /\ try
      found    == disc /\ d # None /\ validate_url(rd)
      tier     == IF kv = "ok" THEN "known"
                  ELSE IF cv = "ok" THEN "cached"
                  ELSE IF found THEN "discover"
                  ELSE "unresolved"
  IN [year |-> y,
      outcome |-> IF tier = "unresolved" THEN "raised" ELSE "url",
      url |-> CASE tier = "known" -> BOE_KNOWN_URLS[y]
                [] tier = "cached" -> m[y].url
                [] tier = "discover" -> d
                [] OTHER -> None,
      tier |-> tier, hadKnown |-> hadKnown, hadCache |-> hadCache,
      kv |-> kv, cv |-> cv, disc |-> disc, found |-> found,
      net |-> hadKnown \/ cv # "na" \/ disc,
      saved |-> FALSE]

(* Faulty variants of the in-memory update: the write forgotten; the      *)
(* dictionary rebuilt with the new key alone.                              *)
BOE_cache_update_forgotten(m, y, e) == m
BOE_cache_update_rebuilt(m, y, e) == [yy \in DOMAIN m |-> IF yy = y THEN e ELSE NoEntry]

(* BOEAutoDiscovery._save_to_cache, line 50: the in-memory update. *)
BOE_cache_update(m, y, e) == [m EXCEPT ![y] = e]

(* BOEAutoDiscovery.get_url with its _save_to_cache: the dump of           *)
(* self.cached_urls to the file may fail (sv), which is only logged.       *)
BOE_get_url(y, try, rk, rc, d, rd, sv) ==
  LET res == BOE_get_url_result(mem, y, try, rk, rc, d, rd)
      m2  == IF res.found THEN BOE_cache_update(mem, y, Entry(d, rd)) ELSE mem
  IN /\ loc = "boe"
     /\ mem' = m2
     /\ file' = IF res.found /\ sv THEN m2 ELSE file
     /\ last' = [res EXCEPT !.saved = res.found /\ sv]
     /\ op' = "get_url"
     /\ UNCHANGED <<loc, notLoc>>

(* The tier chain of the region scrapers' get_source_url: KNOWN_URLS, then  *)
(* the cache lookup, then what discovery returned (d); miss is what the     *)
(* method does when every tier is exhausted.  No fetch validates the Known *)
(* or the cached URL here.                                                 *)
KnownUrl(table, y) == IF y \in DOMAIN table THEN table[y] ELSE None

TierResult(y, k, c, d, miss) ==
  LET tier == IF k # None THEN "known"
              ELSE IF c # None THEN "cached"
              ELSE IF d # None THEN "discover"
              ELSE "unresolved"
  IN [year |-> y,
      outcome |-> IF tier = "unresolved" THEN miss ELSE "url",
      url |-> CASE tier = "known" -> k
                [] tier = "cached" -> c
                [] tier = "discover" -> d
                [] OTHER -> None,
      tier |-> tier, hadKnown |-> k # None, hadCache |-> c # None,
      kv |-> "na", cv |-> "na",
      disc |-> k = None /\ c = None,
      found |-> k = None /\ c = None /\ d # None,
      net |-> k = None /\ c = None,
      saved |-> FALSE]

(* A _save_to_cache that re-reads the file, sets the key and writes the    *)
(* file back; self.cache / self.cached_urls is not touched.                *)
FileUpdate(f, y, e) == [f EXCEPT ![y] = e]

(* auto_discover_andalucia / buscar_en_bocm / buscar_en_boc: a candidate   *)
(* is returned only when the text read for it (rd) answers 200 and holds   *)
(* the year and the anchors.                                               *)
ValidatedDiscovery(d, rd) == IF d # None /\ rd.status = 200 /\ rd.yr /\ rd.an THEN d ELSE None

(* A faulty variant: the cache consulted before KNOWN_URLS. *)
Canarias_cache_first(m, y, d) ==
  IF m[y] # NoEntry
  THEN [TierResult(y, None, m[y].url, d, "raised")
          EXCEPT !.hadKnown = y \in DOMAIN CANARIAS_KNOWN_URLS]
  ELSE TierResult(y, KnownUrl(CANARIAS_KNOWN_URLS, y), m[y].url, d, "raised")

(* CanariasAutonomicosScraper.get_source_url (and CanariasLocalesScraper's,*)
(* the same code on the other kind). *)
Canarias_get_source_url_result(m, y, d) ==
  TierResult(y, KnownUrl(CANARIAS_KNOWN_URLS, y), m[y].url, d, "raised")

(* buscar_en_boc reads the index page of a bulletin issue and the text of  *)
(* its links (rd) and keeps a link only when they hold the year and the    *)
(* keywords.                                                               *)
Canarias_get_source_url(y, d, rd, sv) ==
  LET res == Canarias_get_source_url_result(mem, y, ValidatedDiscovery(d, rd)) IN
  /\ loc = "canarias"
  /\ file' = IF res.found /\ sv THEN FileUpdate(file, y, Entry(d, rd)) ELSE file
  /\ last' = [res EXCEPT !.saved = res.found /\ sv]
  /\ op' = "get_url"
  /\ UNCHANGED <<loc, mem, notLoc>>

(* AndaluciaLocalesScraper.get_source_url (ValenciaLocalesScraper's is the *)
(* same): get_cached_url reads the file at every call; save_to_cache       *)
(* writes outside any try, so a failed write raises.                       *)
Andalucia_get_source_url(y, d, rd, sv) ==
  LET res == TierResult(y, KnownUrl(ANDALUCIA_KNOWN_URLS, y), file[y].url,
                        ValidatedDiscovery(d, rd), "raised") IN
  /\ loc = "andalucia"
  /\ file' = IF res.found /\ sv THEN FileUpdate(file, y, Entry(d, rd)) ELSE file
  /\ last' = IF res.found /\ ~sv
             THEN [res EXCEPT !.outcome = "raised", !.url = None]
             ELSE [res EXCEPT !.saved = res.found]
  /\ op' = "get_url"
  /\ UNCHANGED <<loc, mem, notLoc>>

(* MadridLocalesScraper.get_source_url: no KNOWN_URLS; _save_to_cache      *)
(* catches its own failures.                                               *)
Madrid_get_source_url(y, d, rd, sv) ==
  LET res == TierResult(y, None, mem[y].url, ValidatedDiscovery(d, rd), "raised") IN
  /\ loc = "madrid"
  /\ file' = IF res.found /\ sv THEN FileUpdate(file, y, Entry(d, rd)) ELSE file
  /\ last' = [res EXCEPT !.saved = res.found /\ sv]
  /\ op' = "get_url"
  /\ UNCHANGED <<loc, mem, notLoc>>

(* auto_discover_pais_vasco: the predictable URL d is taken when a HEAD    *)
(* request answers 200, else the catalogue's link d2; no text is read.     *)
auto_discover_pais_vasco(d, rd, d2) == IF rd.status = 200 THEN d ELSE d2

(* PaisVascoLocalesScraper.get_source_url; _save_to_cache has no try. *)
PaisVasco_get_source_url(y, d, rd, d2, rd2, sv) ==
  LET got == auto_discover_pais_vasco(d, rd, d2)
      res == TierResult(y, None, mem[y].url, got, "raised")
      e   == IF rd.status = 200 THEN Entry(d, rd) ELSE Entry(d2, rd2) IN
  /\ loc = "pais_vasco"
  /\ file' = IF res.found /\ sv THEN FileUpdate(file, y, e) ELSE file
  /\ last' = IF res.found /\ ~sv
             THEN [res EXCEPT !.outcome = "raised", !.url = None]
             ELSE [res EXCEPT !.saved = res.found]
  /\ op' = "get_url"
  /\ UNCHANGED <<loc, mem, notLoc>>

(* GaliciaLocalesScraper.get_source_url: the method ends after the         *)
(* `if url:` block, so a miss returns None; auto_discover_galicia takes    *)
(* the DOG link of the catalogue's dataset page without reading the DOG.   *)
Galicia_get_source_url(y, d, rd, sv) ==
  LET res == TierResult(y, None, mem[y].url, d, "none") IN
  /\ loc = "galicia"
  /\ file' = IF res.found /\ sv THEN FileUpdate(file, y, Entry(d, rd)) ELSE file
  /\ last' = IF res.found /\ ~sv
             THEN [res EXCEPT !.outcome = "raised", !.url = None]
             ELSE [res EXCEPT !.saved = res.found]
  /\ op' = "get_url"
  /\ UNCHANGED <<loc, mem, notLoc>>

(* A later execution: the constructor's _load_cache reads the file. *)
NewInstance ==
  /\ mem' = file
  /\ op' = "new_instance"
  /\ UNCHANGED <<loc, file, last, notLoc>>

InitLoc ==
  /\ loc \in Locs
  /\ file \in [Years -> InitEntries]
  /\ mem = file
  /\ last = NoCall
  /\ op = "none"

MaybeUrl == DiscUrls \cup {None}

NextLoc ==
  \/ \E y \in Years, try \in BOOLEAN, rk \in Responses, rc \in Responses,
        d \in MaybeUrl, rd \in Responses, sv \in BOOLEAN :
        BOE_get_url(y, try, rk, rc, d, rd, sv)
  \/ \E y \in Years, d \in MaybeUrl, rd \in Responses, sv \in BOOLEAN :
        Canarias_get_source_url(y, d, rd, sv)
  \/ \E y \in Years, d \in MaybeUrl, rd \in Responses, sv \in BOOLEAN :
        Andalucia_get_source_url(y, d, rd, sv)
  \/ \E y \in Years, d \in MaybeUrl, rd \in Responses, sv \in BOOLEAN :
        Madrid_get_source_url(y, d, rd, sv)
  \/ \E y \in Years, d \in DiscUrls, rd \in Responses, d2 \in MaybeUrl,
        rd2 \in Responses, sv \in BOOLEAN :
        PaisVasco_get_source_url(y, d, rd, d2, rd2, sv)
  \/ \E y \in Years, d \in MaybeUrl, rd \in Responses, sv \in BOOLEAN :
        Galicia_get_source_url(y, d, rd, sv)
  \/ NewInstance

(***************************************************************************)
(* Part 2 (specification SpecSave): discovery runs that finish at the same *)
(* time and each store their URL in one cache file.  A writer is one       *)
(* scraper instance (one request, one process); its key is (kind, year).   *)
(* "region" writers run the _save_to_cache of the region scrapers and      *)
(* save_to_cache of the discovery modules: open/json.load, set the key,    *)
(* open/json.dump.  "boe" writers are BOEAutoDiscovery instances: the file *)
(* is read by _load_cache in the constructor, and _save_to_cache dumps     *)
(* self.cached_urls.  Nothing locks the file.                              *)
(***************************************************************************)
NumWriters == 2
Writers == 1..NumWriters
Kinds == {"autonomicos", "locales"}
SaveYears == {2026, 2027}
Keys == Kinds \X SaveYears

(* lines 59-63 of CanariasAutonomicosScraper._save_to_cache (the same in   *)
(* andalucia_discovery.save_to_cache, lines 117-124): cache = json.load(f) *)
Region_save_read(w) ==
  /\ sStyle = "region"
  /\ sPc[w] = "start"
  /\ sLocal' = [sLocal EXCEPT ![w] = sFile]
  /\ sPc' = [sPc EXCEPT ![w] = "loaded"]
  /\ UNCHANGED <<sStyle, sKey, sFile, notSave>>

(* lines 66-74: cache[tipo][str(year)] = url; json.dump(cache, f) *)
Region_save_write(w) ==
  /\ sStyle = "region"
  /\ sPc[w] = "loaded"
  /\ sFile' = sLocal[w] \cup {sKey[w]}
  /\ sPc' = [sPc EXCEPT ![w] = "done"]
  /\ UNCHANGED <<sStyle, sKey, sLocal, notSave>>

(* BOEAutoDiscovery._load_cache, called by __init__ *)
BOE_load_cache(w) ==
  /\ sStyle = "boe"
  /\ sPc[w] = "start"
  /\ sLocal' = [sLocal EXCEPT ![w] = sFile]
  /\ sPc' = [sPc EXCEPT ![w] = "loaded"]
  /\ UNCHANGED <<sStyle, sKey, sFile, notSave>>

(* BOEAutoDiscovery._save_to_cache: self.cached_urls[str(year)] = url;     *)
(* json.dump(self.cached_urls, f)                                          *)
BOE_save_to_cache(w) ==
  /\ sStyle = "boe"
  /\ sPc[w] = "loaded"
  /\ sLocal' = [sLocal EXCEPT ![w] = sLocal[w] \cup {sKey[w]}]
  /\ sFile' = sLocal[w] \cup {sKey[w]}
  /\ sPc' = [sPc EXCEPT ![w] = "done"]
  /\ UNCHANGED <<sStyle, sKey, notSave>>

InitSave ==
  /\ sStyle \in {"region", "boe"}
  /\ sKey \in {k \in [Writers -> Keys] :
                 /\ \A v, w \in Writers : v # w => k[v] # k[w]
                 /\ sStyle = "boe" => \A w \in Writers : k[w][1] = "autonomicos"}
  /\ sPc = [w \in Writers |-> "start"]
  /\ sLocal = [w \in Writers |-> {}]
  /\ sFile \in {{}} \cup {{k} : k \in Keys}

IdleSave ==
  /\ sStyle = "region"
  /\ sKey = [w \in Writers |-> <<"autonomicos", 2026>>]
  /\ sPc = [w \in Writers |-> "done"]
  /\ sLocal = [w \in Writers |-> {}]
  /\ sFile = {}

NextSave ==
  \/ \E w \in Writers : Region_save_read(w)
  \/ \E w \in Writers : Region_save_write(w)
  \/ \E w \in Writers : BOE_load_cache(w)
  \/ \E w \in Writers : BOE_save_to_cache(w)

(* C4: when the writers have all finished their save, the file holds every *)
(* writer's key, in every interleaving of the reads and writes.            *)
C4_NoLostUpdate ==
  (\A w \in Writers : sPc[w] = "done") => \A w \in Writers : sKey[w] \in sFile

(***************************************************************************)
(* Part 3 (specification SpecDisc): BOEAutoDiscovery._try_auto_discovery.  *)
(* The months are searched one after the other; the days of a month are    *)
(* submitted to a ThreadPoolExecutor and read back with as_completed, that *)
(* is in the order the workers finish.  dDocs is what the BOE API answers  *)
(* for a day (the URL of a matching document, or None); it is the same in  *)
(* every run, so two runs differ by the timing of the workers only.  The   *)
(* pool has 10 workers, more than the days modelled: every future of the   *)
(* month is running and any of them can be the next to complete.           *)
(***************************************************************************)
MaxMes == 2
MaxDia == 2
NumRuns == 2
Meses == 1..MaxMes
Dias == 1..MaxDia
Runs == 1..NumRuns
Running == "running"

(* buscar_dia: the summary of the day, searched by _search_in_json. *)
buscar_dia(docs, mes, dia) == docs[<<mes, dia>>]

(* `for future in as_completed(futures)`: the next future to complete is   *)
(* that of any day still pending; a truthy result is returned at once.     *)
as_completed(dia) ==
  /\ dResult[dRun] = Running
  /\ dia \in dPending
  /\ LET result == buscar_dia(dDocs, dMes, dia)
     IN dResult' = IF result # None THEN [dResult EXCEPT ![dRun] = result]
                   ELSE dResult
  /\ dPending' = dPending \ {dia}
  /\ UNCHANGED <<dDocs, dRun, dMes, notDisc>>

(* The month gave nothing: the next month's days are submitted, and after  *)
(* the last month the search returns None.                                 *)
NextMes ==
  /\ dResult[dRun] = Running
  /\ dPending = {}
  /\ IF dMes < MaxMes
     THEN /\ dMes' = dMes + 1
          /\ dPending' = Dias
          /\ UNCHANGED dResult
     ELSE /\ dResult' = [dResult EXCEPT ![dRun] = None]
          /\ UNCHANGED <<dMes, dPending>>
  /\ UNCHANGED <<dDocs, dRun, notDisc>>

(* The search is run again (another get_url call for the same year). *)
try_auto_discovery_again ==
  /\ dResult[dRun] # Running
  /\ dRun < NumRuns
  /\ dRun' = dRun + 1
  /\ dMes' = 1
  /\ dPending' = Dias
  /\ UNCHANGED <<dDocs, dResult, notDisc>>

InitDisc ==
  /\ dDocs \in [Meses \X Dias -> MaybeUrl]
  /\ dRun = 1
  /\ dMes = 1
  /\ dPending = Dias
  /\ dResult = [r \in Runs |-> Running]

IdleDisc ==
  /\ dDocs = [md \in Meses \X Dias |-> None]
  /\ dRun = NumRuns
  /\ dMes = MaxMes
  /\ dPending = {}
  /\ dResult = [r \in Runs |-> None]

NextDisc ==
  \/ \E dia \in Dias : as_completed(dia)
  \/ NextMes
  \/ try_auto_discovery_again

(* C5: the winner of the parallel search does not depend on the order in   *)
(* which the workers complete: every run over the same BOE answers returns *)
(* the same URL.                                                           *)
C5_SameWinnerEveryRun ==
  (\A r \in Runs : dResult[r] # Running)
    => \A r1, r2 \in Runs : dResult[r1] = dResult[r2]

(***************************************************************************)
(* Part 4 (specification SpecParse): BOEScraper.parse_festivos, the chain  *)
(* of extraction strategies.  A strategy's result is represented by its    *)
(* name and the number of records it extracted from the content; the       *)
(* content is represented by what each strategy extracts from it.          *)
(***************************************************************************)
MinFestivos == 9
TablaCCAAFromYear == 2024
NumFestivosFijos == 9
MaxYield == 12
ParseYears == {TablaCCAAFromYear - 1, TablaCCAAFromYear, TablaCCAAFromYear + 1}
Yields == {0, MinFestivos - 1, MinFestivos, MaxYield}
Contents == [ccaa : Yields, jueves : BOOLEAN, viernes : BOOLEAN,
             tabla : Yields, texto : Yields]
Pending == [metodo |-> "pending", n |-> 0]
Festivos(metodo, n) == [metodo |-> metodo, n |-> n]
EmptyList == Festivos("none", 0)

(* The known patterns without the fixed holidays: only what is found in   *)
(* the content.                                                            *)
parse_patrones_conocidos_sin_fijos(c) ==
  (IF c.jueves THEN 1 ELSE 0) + (IF c.viernes THEN 1 ELSE 0)

(* _parse_patrones_conocidos: the nine fixed holidays are appended         *)
(* whatever the content is; Jueves Santo and Viernes Santo are added when  *)
(* their pattern is found in the content.                                  *)
parse_patrones_conocidos(c) ==
  NumFestivosFijos + (IF c.jueves THEN 1 ELSE 0) + (IF c.viernes THEN 1 ELSE 0)

(* The chain with the known patterns tried before the CCAA table. *)
parse_festivos_known_first(year, c) ==
  Festivos("patrones_conocidos", parse_patrones_conocidos(c))

parse_festivos(year, c) ==
  LET conocidos == parse_patrones_conocidos(c)
  IN IF year >= TablaCCAAFromYear /\ c.ccaa > 0 /\ c.ccaa >= MinFestivos
       THEN Festivos("tabla_ccaa", c.ccaa)
     ELSE IF conocidos > 0 /\ conocidos >= MinFestivos
       THEN Festivos("patrones_conocidos", conocidos)
     ELSE IF c.tabla > 0 /\ c.tabla >= MinFestivos
       THEN Festivos("tabla_html", c.tabla)
     ELSE IF c.texto > 0 /\ c.texto >= MinFestivos
       THEN Festivos("texto_patrones", c.texto)
     ELSE IF conocidos > 0
       THEN Festivos("patrones_conocidos", conocidos)
     ELSE EmptyList

Parse ==
  /\ pResult = Pending
  /\ pResult' = parse_festivos(pYear, pContent)
  /\ UNCHANGED <<pYear, pContent, notParse>>

InitParse ==
  /\ pYear \in ParseYears
  /\ pContent \in Contents
  /\ pResult = Pending

IdleParse ==
  /\ pYear = TablaCCAAFromYear
  /\ pContent = [ccaa |-> 0, jueves |-> FALSE, viernes |-> FALSE,
                 tabla |-> 0, texto |-> 0]
  /\ pResult = EmptyList

NextParse == Parse

(* The strategies parse_festivos computes results for, in the order it is  *)
(* written in; the CCAA table is a strategy from TablaCCAAFromYear on.     *)
Chain(year, c) ==
  (IF year >= TablaCCAAFromYear THEN <<Festivos("tabla_ccaa", c.ccaa)>> ELSE <<>>)
    \o <<Festivos("patrones_conocidos", parse_patrones_conocidos(c)),
         Festivos("tabla_html", c.tabla),
         Festivos("texto_patrones", c.texto)>>

Reaching(ch) == {i \in DOMAIN ch : ch[i].n >= MinFestivos}
FirstReaching(ch) == CHOOSE i \in Reaching(ch) : \A j \in Reaching(ch) : i <= j

C20_ElevenNationalRecords ==
  (pResult # Pending /\ pYear = 2025 /\ pContent.ccaa = 0) =>
    pResult.n = NumFestivosFijos + 2

MaxRecords == 2
Adapters == {"nacionales", "autonomicos", "locales"}
Regions == {"canarias", "madrid"}

(* What the adapter meets: no source URL in any tier, a download that      *)
(* fails, or a content that is parsed into n valid records.                *)
Sources == {"unresolved", "fetch_failed", "parsed"}

(* BOEScraper.get_source_url catches the locator's ValueError and returns  *)
(* "": scrape() then returns [].                                           *)
BOEScraper_scrape(src, n) ==
  [raised |-> FALSE,
   status |-> IF src = "unresolved" THEN "no_url" ELSE src,
   n |-> IF src = "parsed" THEN n ELSE 0]

(* The Canarias scrapers' get_source_url raises ValueError, and scrape()   *)
(* does not catch it; fetch_content returns "" on any download error.      *)
BaseScraper_scrape(src, n) ==
  [raised |-> src = "unresolved",
   status |-> IF src = "unresolved" THEN "raised" ELSE src,
   n |-> IF src = "parsed" THEN n ELSE 0]

RunPhase(a, res, nextPc) ==
  /\ oStatus' = [oStatus EXCEPT ![a] = res.status]
  /\ oCount' = [oCount EXCEPT ![a] = res.n]
  /\ oPc' = IF res.raised THEN "raised" ELSE nextPc
  /\ oError' = IF res.raised THEN "ValueError" ELSE oError
  /\ UNCHANGED <<oCcaa, oSaved, oCombined, notOrch>>

Fase1Nacionales(src, n) ==
  /\ oPc = "fase1"
  /\ RunPhase("nacionales", BOEScraper_scrape(src, n),
              IF oCcaa = "canarias" THEN "fase2" ELSE "resumen")

Fase2Autonomicos(src, n) ==
  /\ oPc = "fase2"
  /\ RunPhase("autonomicos", BaseScraper_scrape(src, n), "fase3")

Fase3Locales(src, n) ==
  /\ oPc = "fase3"
  /\ RunPhase("locales", BaseScraper_scrape(src, n), "resumen")

(* The document _save_combined writes: its metadata (the sources of the    *)
(* three lists, their lengths) and the lists, here by their lengths.       *)
Combined(ccaa, count) ==
  [ccaa |-> ccaa,
   fuentes |-> [nacionales |-> "BOE",
                autonomicos |-> IF ccaa = "canarias" THEN "BOC" ELSE None,
                locales |-> IF ccaa = "canarias" THEN "BOC" ELSE None],
   total_festivos |-> count]

NoCombined == Combined(None, [a \in Adapters |-> 0])

save_combined ==
  /\ oPc = "resumen"
  /\ oSaved' = TRUE
  /\ oCombined' = Combined(oCcaa, oCount)
  /\ oPc' = "returned"
  /\ UNCHANGED <<oCcaa, oStatus, oCount, oError, notOrch>>

InitOrch ==
  /\ oCcaa \in Regions
  /\ oPc = "fase1"
  /\ oStatus = [a \in Adapters |-> "not_run"]
  /\ oCount = [a \in Adapters |-> 0]
  /\ oSaved = FALSE
  /\ oError = "none"
  /\ oCombined = NoCombined

IdleOrch ==
  /\ oCcaa = "canarias"
  /\ oPc = "idle"
  /\ oStatus = [a \in Adapters |-> "not_run"]
  /\ oCount = [a \in Adapters |-> 0]
  /\ oSaved = FALSE
  /\ oError = "none"
  /\ oCombined = NoCombined

NextOrch ==
  \/ \E src \in Sources, n \in 0..MaxRecords : Fase1Nacionales(src, n)
  \/ \E src \in Sources, n \in 0..MaxRecords : Fase2Autonomicos(src, n)
  \/ \E src \in Sources, n \in 0..MaxRecords : Fase3Locales(src, n)
  \/ save_combined

AdaptersOf(ccaa) == IF ccaa = "canarias" THEN Adapters ELSE {"nacionales"}
Ended == oPc \in {"returned", "raised"}

(* C9: the failure of one adapter does not abort run_all: when run_all has *)
(* ended, every adapter of the region has been run, no exception has       *)
(* reached the caller, and the records obtained have been saved.           *)
C9_AdapterErrorDoesNotAbort ==
  Ended => /\ \A a \in AdaptersOf(oCcaa) : oStatus[a] \notin {"not_run", "raised"}
           /\ oSaved

(* C10: run_all ends with an error exactly when the national adapter       *)
(* obtained no data.                                                       *)
C10_OnlyNationalFailureFatal ==
  Ended => (oError # "none" <=> oCount["nacionales"] = 0)

(* What run_all hands back besides the records: the warnings of the saved  *)
(* document.                                                               *)
Warnings(doc) == IF "warnings" \in DOMAIN doc THEN doc.warnings ELSE {}

(* C11: for a region that has no local adapter, run_all ends without an    *)
(* error, with national records only (no local record), and with exactly   *)
(* one warning, which names the missing local coverage.                    *)
C11_OneWarningForMissingLocal ==
  (Ended /\ oCcaa # "canarias") =>
    /\ oError = "none"
    /\ oCount["locales"] = 0
    /\ Cardinality(Warnings(oCombined)) = 1
    /\ \A w \in Warnings(oCombined) : w = "locales"

(***************************************************************************)
(* Part 6 (specification SpecMuni): the holidays of one municipality.      *)
(* CanariasLocalesScraper.parse_festivos reads the Orden of the BOC, a     *)
(* list of municipality headers each followed by its holiday lines;        *)
(* CalendarioOrchestrator.get_festivos_municipio then merges the national  *)
(* records, the regional records of the municipality's island and the      *)
(* local records of the municipality, and sorts them by date.              *)
(*                                                                         *)
(* A name is the sequence of its characters, so that Python's `in` on      *)
(* strings is the search of a contiguous subsequence.  The names are taken *)
(* from the island mapping of _load_municipios_islas; the model keeps      *)
(* three islands of it, in the order of the dictionary.                    *)
(***************************************************************************)
ADEJE == <<"A", "D", "E", "J", "E">>
EL_ROSARIO == <<"E", "L", " ", "R", "O", "S", "A", "R", "I", "O">>
TIAS == <<"T", "Í", "A", "S">>
PUERTO_DEL_ROSARIO ==
  <<"P", "U", "E", "R", "T", "O", " ", "D", "E", "L", " ",
    "R", "O", "S", "A", "R", "I", "O">>

municipios_islas ==
  << [isla |-> "Tenerife", municipios |-> <<ADEJE, EL_ROSARIO>>],
     [isla |-> "Lanzarote", municipios |-> <<TIAS>>],
     [isla |-> "La Graciosa", municipios |-> <<>>],
     [isla |-> "Fuerteventura", municipios |-> <<PUERTO_DEL_ROSARIO>>] >>

Municipios == {ADEJE, EL_ROSARIO, TIAS, PUERTO_DEL_ROSARIO}

(* The island whose list contains the municipality. *)
IslaDe(m) ==
  CHOOSE isla \in {municipios_islas[i].isla : i \in DOMAIN municipios_islas} :
    \E i \in DOMAIN municipios_islas :
      /\ municipios_islas[i].isla = isla
      /\ \E j \in DOMAIN municipios_islas[i].municipios :
           municipios_islas[i].municipios[j] = m

(* a in b, for Python strings. *)
IsSubstring(a, b) ==
  \E i \in 0..(Len(b) - Len(a)) : SubSeq(b, i + 1, i + Len(a)) = a

(* unicodedata.normalize('NFKD', ...).encode('ASCII', 'ignore'): the       *)
(* accent of a letter is dropped (the names are in upper case already).    *)
SinTilde(c) ==
  CASE c = "Á" -> "A" [] c = "É" -> "E" [] c = "Í" -> "I"
    [] c = "Ó" -> "O" [] c = "Ú" -> "U" [] OTHER -> c

RECURSIVE Strip(_)
Strip(t) ==
  IF t = <<>> THEN t
  ELSE IF Head(t) = " " THEN Strip(Tail(t))
  ELSE IF t[Len(t)] = " " THEN Strip(SubSeq(t, 1, Len(t) - 1))
  ELSE t

(* normalizar of get_isla_municipio: no accents, upper case, stripped. *)
normalizar(t) == Strip([i \in DOMAIN t |-> SinTilde(t[i])])

(* normalizar_para_comparar of CanariasLocalesScraper.parse_festivos: no   *)
(* accents, upper case, and the spaces and commas removed.                 *)
normalizar_para_comparar(t) ==
  SelectSeq(normalizar(t), LAMBDA c : c # " " /\ c # ",")

(* The (island, municipality) pairs in the order get_isla_municipio visits *)
(* them.                                                                   *)
RECURSIVE Pairs(_)
Pairs(i) ==
  IF i > Len(municipios_islas) THEN <<>>
  ELSE [j \in DOMAIN municipios_islas[i].municipios |->
          [isla |-> municipios_islas[i].isla,
           mun |-> municipios_islas[i].municipios[j]]] \o Pairs(i + 1)

get_isla_municipio(municipio) ==
  LET municipio_norm == normalizar(municipio)
      todos == Pairs(1)
      hit == {k \in DOMAIN todos :
                LET mun_norm == normalizar(todos[k].mun)
                IN \/ municipio_norm = mun_norm
                   \/ IsSubstring(municipio_norm, mun_norm)
                   \/ IsSubstring(mun_norm, municipio_norm)}
  IN IF hit = {} THEN None
     ELSE todos[CHOOSE k \in hit : \A k2 \in hit : k <= k2].isla

MaxLines == 4
MaxQueries == 2
MuniYear == 2026
NoName == <<>>

(* A record of a holiday list; fecha is the ISO date 'YYYY-MM-DD' as the   *)
(* triple of its fields, which the string order compares field by field.  *)
Festivo(tipo, ambito, mes, dia, islas, aplicables, municipio) ==
  [tipo |-> tipo, ambito |-> ambito, fecha |-> <<MuniYear, mes, dia>>,
   islas |-> islas, municipios_aplicables |-> aplicables,
   municipio |-> municipio]

Nacional(mes, dia) == Festivo("nacional", "nacional", mes, dia, None, {}, NoName)
DiaDeCanarias == Festivo("autonomico", "autonomico", 5, 30, "Todas", {"Todos"}, NoName)
Insular(islas, aplicables, mes, dia) ==
  Festivo("autonomico", "insular", mes, dia, islas, aplicables, NoName)
Local(municipio, mes, dia) ==
  Festivo("local", "municipal", mes, dia, None, {}, municipio)

(* The lines of the Orden: a municipality header ("NAME.") or a holiday    *)
(* line ("DD de mes: description").                                        *)
HeaderLine(nombre) == [kind |-> "municipio", nombre |-> nombre, mes |-> 0, dia |-> 0]
FestivoLine(mes, dia) == [kind |-> "festivo", nombre |-> NoName, mes |-> mes, dia |-> dia]
Lines ==
  {HeaderLine(EL_ROSARIO), HeaderLine(PUERTO_DEL_ROSARIO),
   FestivoLine(5, 30), FestivoLine(8, 15)}
Docs == UNION {[1..n -> Lines] : n \in 0..MaxLines}

(* The municipality filter of CanariasLocalesScraper.parse_festivos. *)
debe_incluir(filtro, municipio_actual) ==
  IF filtro = NoName THEN TRUE
  ELSE LET mun_buscado == normalizar_para_comparar(filtro)
           mun_encontrado == normalizar_para_comparar(municipio_actual)
       IN \/ mun_buscado = mun_encontrado
          \/ IsSubstring(mun_buscado, mun_encontrado)
          \/ IsSubstring(mun_encontrado, mun_buscado)

(* The records of the municipality that ends are kept if the filter lets   *)
(* its name pass.                                                          *)
Flush(filtro, municipio_actual, festivos_municipio, festivos) ==
  IF municipio_actual # NoName /\ festivos_municipio # <<>>
       /\ debe_incluir(filtro, municipio_actual)
  THEN festivos \o festivos_municipio
  ELSE festivos

RECURSIVE ParseLineas(_, _, _, _, _, _)
ParseLineas(lineas, i, filtro, municipio_actual, festivos_municipio, festivos) ==
  IF i > Len(lineas)
  THEN Flush(filtro, municipio_actual, festivos_municipio, festivos)
  ELSE IF lineas[i].kind = "municipio"
  THEN ParseLineas(lineas, i + 1, filtro, lineas[i].nombre, <<>>,
                   Flush(filtro, municipio_actual, festivos_municipio, festivos))
  ELSE IF municipio_actual = NoName
  THEN ParseLineas(lineas, i + 1, filtro, municipio_actual, festivos_municipio, festivos)
  ELSE LET fest == Local(municipio_actual, lineas[i].mes, lineas[i].dia)
           fecha_existe == \E k \in DOMAIN festivos_municipio :
                             /\ festivos_municipio[k].fecha = fest.fecha
                             /\ festivos_municipio[k].municipio = municipio_actual
       IN ParseLineas(lineas, i + 1, filtro, municipio_actual,
                      IF fecha_existe THEN festivos_municipio
                      ELSE Append(festivos_municipio, fest),
                      festivos)

Locales_parse_festivos(filtro, content) ==
  ParseLineas(content, 1, filtro, NoName, <<>>, <<>>)

(* x['fecha'] <= y['fecha'] on ISO dates. *)
FechaLeq(a, b) ==
  \/ a[1] < b[1]
  \/ a[1] = b[1] /\ a[2] < b[2]
  \/ a[1] = b[1] /\ a[2] = b[2] /\ a[3] <= b[3]

(* A sort that is not stable: a record goes before the records of its date. *)
InsertBeforeEqual(x, s) ==
  LET before == SelectSeq(s, LAMBDA y : FechaLeq(y.fecha, x.fecha) /\ y.fecha # x.fecha)
      after == SelectSeq(s, LAMBDA y : FechaLeq(x.fecha, y.fecha))
  IN before \o <<x>> \o after

(* list.sort(key=...) is stable: a record goes after the records of its    *)
(* date that precede it in the list.                                       *)
InsertSorted(x, s) ==
  LET before == SelectSeq(s, LAMBDA y : FechaLeq(y.fecha, x.fecha))
      after == SelectSeq(s, LAMBDA y : ~FechaLeq(y.fecha, x.fecha))
  IN before \o <<x>> \o after

RECURSIVE SortByFecha(_)
SortByFecha(s) ==
  IF s = <<>> THEN <<>>
  ELSE InsertSorted(s[Len(s)], SortByFecha(SubSeq(s, 1, Len(s) - 1)))

(* The regional records get_festivos_municipio keeps for an island. *)
AutonomicosAplicables(autonomicos, isla) ==
  SelectSeq(autonomicos, LAMBDA f :
    \/ f.ambito = "autonomico" /\ f.islas = "Todas"
    \/ f.ambito = "insular" /\ isla # None /\ isla \in f.municipios_aplicables)

get_festivos_municipio(nacionales, autonomicos, locales, municipio) ==
  LET isla == get_isla_municipio(municipio)
      festivos_municipio == SelectSeq(locales, LAMBDA f : f.municipio = municipio)
  IN SortByFecha(nacionales \o AutonomicosAplicables(autonomicos, isla)
                   \o festivos_municipio)

(* What the three scrapers left in the orchestrator. *)
(* For the national list: the known patterns (Semana Santa appended after  *)
(* December), or the rows of the CCAA table, which parse_tabla_ccaa types   *)
(* 'autonomico' when they do not apply to every region.                    *)
TablaAutonomico(ccaa, mes, dia) ==
  Festivo("autonomico", ccaa, mes, dia, None, {}, NoName)
NacionalesLists ==
  {<<>>,
   <<Nacional(8, 15), Nacional(12, 25), Nacional(4, 3)>>,
   <<TablaAutonomico("canarias", 5, 30), Nacional(8, 15)>>}
AutonomicosLists ==
  {<<>>,
   <<DiaDeCanarias,
     Insular("Tenerife", {"Tenerife"}, 8, 15),
     Insular("Lanzarote/La Graciosa", {"Lanzarote", "La Graciosa"}, 9, 15),
     Insular("Fuerteventura", {"Fuerteventura"}, 9, 19)>>}

(* CanariasLocalesScraper(year, municipio=filtro).parse_festivos(content) *)
ParseLocales(filtro) ==
  /\ mPc = "start"
  /\ mFiltro' = filtro
  /\ mLocales' = Locales_parse_festivos(filtro, mDoc)
  /\ mPc' = "parsed"
  /\ UNCHANGED <<mDoc, mNac, mAuto, mMunicipio, mIsla, mResult, mCalls, notMuni>>

(* festivos_totales = self.festivos_nacionales: the list of the            *)
(* orchestrator itself extended and sorted.                                *)
festivos_nacionales_aliased(festivos_nacionales, festivos_totales) == festivos_totales

(* self.festivos_nacionales after a call: festivos_totales = [] is a list  *)
(* of its own, extend, append and sort act on it and the list of the       *)
(* orchestrator is only read.                                              *)
festivos_nacionales_after(festivos_nacionales, festivos_totales) == festivos_nacionales

(* orchestrator.get_festivos_municipio(municipio), the local list being    *)
(* that of the scraper run_all builds, which has no municipality filter;   *)
(* the orchestrator is asked for one municipality after the other.         *)
GetFestivosMunicipio(municipio) ==
  LET festivos_totales == get_festivos_municipio(mNac, mAuto, mLocales, municipio) IN
  /\ mPc \in {"parsed", "returned"}
  /\ mCalls < MaxQueries
  /\ mFiltro = NoName
  /\ mMunicipio' = municipio
  /\ mIsla' = get_isla_municipio(municipio)
  /\ mResult' = festivos_totales
  /\ mNac' = festivos_nacionales_after(mNac, festivos_totales)
  /\ mPc' = "returned"
  /\ mCalls' = mCalls + 1
  /\ UNCHANGED <<mDoc, mFiltro, mLocales, mAuto, notMuni>>

InitMuni ==
  /\ mDoc \in Docs
  /\ mNac \in NacionalesLists
  /\ mAuto \in AutonomicosLists
  /\ mFiltro = NoName
  /\ mLocales = <<>>
  /\ mMunicipio = NoName
  /\ mIsla = None
  /\ mResult = <<>>
  /\ mPc = "start"
  /\ mCalls = 0

IdleMuni ==
  /\ mDoc = <<>>
  /\ mNac = <<>>
  /\ mAuto = <<>>
  /\ mFiltro = NoName
  /\ mLocales = <<>>
  /\ mMunicipio = NoName
  /\ mIsla = None
  /\ mResult = <<>>
  /\ mPc = "idle"
  /\ mCalls = 0

NextMuni ==
  \/ \E filtro \in Municipios \cup {NoName} : ParseLocales(filtro)
  \/ \E municipio \in Municipios : GetFestivosMunicipio(municipio)

Returned == mPc = "returned"
Range(s) == {s[i] : i \in DOMAIN s}

(* C12: the list returned for a municipality has no two local records with *)
(* the same date and the same municipality.                                *)
C12_NoDuplicateLocal ==
  Returned =>
    \A i, j \in DOMAIN mResult :
      (/\ mResult[i].tipo = "local" /\ mResult[j].tipo = "local"
       /\ mResult[i].fecha = mResult[j].fecha
       /\ mResult[i].municipio = mResult[j].municipio) => i = j

TipoRank(tipo) == CASE tipo = "nacional" -> 1 [] tipo = "autonomico" -> 2 [] OTHER -> 3

(* C13: the list returned for a municipality is in non-decreasing date     *)
(* order, and among the records of one date the national ones come before  *)
(* the regional ones, which come before the local ones.                    *)
C13_SortedNationalRegionalLocal ==
  Returned =>
    \A i, j \in DOMAIN mResult :
      i < j => /\ FechaLeq(mResult[i].fecha, mResult[j].fecha)
               /\ mResult[i].fecha = mResult[j].fecha
                    => TipoRank(mResult[i].tipo) <= TipoRank(mResult[j].tipo)

(* A national, a regional and a local record of 15 August, and a national  *)
(* list that was not in date order, have been merged and sorted.           *)
C13_Witness ==
  /\ Returned
  /\ \E i \in DOMAIN mResult :
       /\ i + 2 \in DOMAIN mResult
       /\ mResult[i] = Nacional(8, 15)
       /\ mResult[i + 1].tipo = "autonomico" /\ mResult[i + 1].fecha = <<MuniYear, 8, 15>>
       /\ mResult[i + 2].tipo = "local" /\ mResult[i + 2].fecha = <<MuniYear, 8, 15>>
  /\ mResult[1] = Nacional(4, 3)

(* C14: with a municipality requested, every record parse_festivos returns *)
(* is of a municipality equivalent to the requested one.                   *)
C14_OnlyRequestedMunicipio ==
  (mPc = "parsed" /\ mFiltro # NoName) =>
    \A k \in DOMAIN mLocales :
      normalizar_para_comparar(mLocales[k].municipio) = normalizar_para_comparar(mFiltro)

(* C15: for a municipality of the island mapping, get_isla_municipio gives *)
(* the island whose list contains it, and the regional records kept are    *)
(* exactly the region-wide ones and those whose islands cover that island. *)
C15_IslandOfMunicipio ==
  Returned =>
    /\ mIsla = IslaDe(mMunicipio)
    /\ \A f \in Range(mAuto) :
         f \in Range(mResult) <=>
           \/ f.islas = "Todas"
           \/ IslaDe(mMunicipio) \in f.municipios_aplicables

(***************************************************************************)
(* Part 7 (specification SpecScrape): scrape() of the adapters, from the   *)
(* dates a document contains to the records returned.  A date of the       *)
(* document is the year it states (read by the Pais Vasco adapter only,    *)
(* whose JSON gives 'YYYY/MM/DD'), a month and a day; the ISO string of a  *)
(* record is the triple of its fields.                                     *)
(***************************************************************************)
MaxItems == 2
ScrapeYears == {2024, 2025}
ScrapeAdapters == {"canarias", "cataluna", "pais_vasco"}
Items == [y : ScrapeYears, md : {<<2, 29>>, <<2, 30>>, <<12, 25>>}]
ItemLists == UNION {[1..n -> Items] : n \in 0..MaxItems}

IsLeap(y) == (y % 4 = 0 /\ y % 100 # 0) \/ y % 400 = 0
DaysIn(y, m) ==
  CASE m = 2 -> IF IsLeap(y) THEN 29 ELSE 28
    [] m \in {4, 6, 9, 11} -> 30
    [] OTHER -> 31

(* datetime(y, m, d), and datetime.strptime(fecha, '%Y-%m-%d'), accept the *)
(* dates of the calendar only.                                             *)
ValidDate(f) ==
  /\ f[1] >= 1 /\ f[2] \in 1..12
  /\ f[3] >= 1 /\ f[3] <= DaysIn(f[1], f[2])

Record(fecha, year) ==
  [fecha |-> fecha, year |-> year,
   campos |-> {"fecha", "descripcion", "tipo", "ambito"}]

validate_festivo(festivo) ==
  /\ {"fecha", "descripcion", "tipo", "ambito"} \subseteq festivo.campos
  /\ ValidDate(festivo.fecha)

(* CanariasLocalesScraper.parse_festivos: parse_fecha_espanol builds       *)
(* datetime(self.year, mes, dia) and gives None when it is no date.        *)
Canarias_parse(year, items) ==
  LET ok == SelectSeq(items, LAMBDA it : ValidDate(<<year, it.md[1], it.md[2]>>))
  IN [i \in DOMAIN ok |-> Record(<<year, ok[i].md[1], ok[i].md[2]>>, year)]

(* CatalunaLocalesScraper.parse_festivos: _convertir_fecha formats         *)
(* f"{self.year}-{mes:02d}-{dia:02d}" for any day and month name.          *)
Cataluna_parse(year, items) ==
  [i \in DOMAIN items |-> Record(<<year, items[i].md[1], items[i].md[2]>>, year)]

(* PaisVascoLocalesScraper.parse_festivos: the date of the JSON item with  *)
(* '/' replaced by '-', and 'year': self.year.                             *)
PaisVasco_parse(year, items) ==
  [i \in DOMAIN items |-> Record(<<items[i].y, items[i].md[1], items[i].md[2]>>, year)]

(* BaseScraper.scrape keeps the records that validate_festivo accepts;     *)
(* CatalunaLocalesScraper.scrape returns what parse_festivos gave.         *)
Adapter_scrape(adapter, year, items) ==
  CASE adapter = "canarias" ->
         SelectSeq(Canarias_parse(year, items), validate_festivo)
    [] adapter = "pais_vasco" ->
         SelectSeq(PaisVasco_parse(year, items), validate_festivo)
    [] OTHER -> Cataluna_parse(year, items)

Scrape ==
  /\ vPc = "start"
  /\ vResult' = Adapter_scrape(vAdapter, vYear, vItems)
  /\ vPc' = "returned"
  /\ UNCHANGED <<vAdapter, vYear, vItems, notScrape>>

InitScrape ==
  /\ vAdapter \in ScrapeAdapters
  /\ vYear \in ScrapeYears
  /\ vItems \in ItemLists
  /\ vResult = <<>>
  /\ vPc = "start"

IdleScrape ==
  /\ vAdapter = "canarias"
  /\ vYear \in {y \in ScrapeYears : \A y2 \in ScrapeYears : y <= y2}
  /\ vItems = <<>>
  /\ vResult = <<>>
  /\ vPc = "idle"

NextScrape == Scrape

(* C16: every record of the list an adapter's scrape() returns passes      *)
(* validate_festivo: a record that fails the structural checks has been    *)
(* dropped.                                                                *)
C16_OnlyValidRecords ==
  vPc = "returned" => \A i \in DOMAIN vResult : validate_festivo(vResult[i])

(* C17: every record an adapter returns for year Y has a date of year Y    *)
(* and the year field Y.                                                   *)
C17_DateYearIsSourceYear ==
  vPc = "returned" =>
    \A i \in DOMAIN vResult :
      vResult[i].fecha[1] = vResult[i].year /\ vResult[i].year = vYear

(***************************************************************************)
(* Part 8 (specification SpecPascua): utils/pascua.py, the movable feasts. *)
(* A date is the triple <<year, month, day>>.                              *)
(***************************************************************************)
PascuaValidFrom == 1583
MaxPascuaYears == 500
PascuaYears == PascuaValidFrom..(PascuaValidFrom + MaxPascuaYears)

(* Easter Sunday with the day of the month not brought back to 1..31. *)
calcular_pascua_sin_mas_uno(year) ==
  LET a == year % 19
      b == year \div 100
      c == year % 100
      d == b \div 4
      e == b % 4
      f == (b + 8) \div 25
      g == (b - f + 1) \div 3
      h == (19 * a + b - d - g + 15) % 30
      i == c \div 4
      k == c % 4
      l == (32 + 2 * e + 2 * i - h - k) % 7
      m == (a + 11 * h + 22 * l) \div 451
  IN <<year, (h + l - 7 * m + 114) \div 31, (h + l - 7 * m + 114) % 31>>

calcular_pascua(year) ==
  LET a == year % 19
      b == year \div 100
      c == year % 100
      d == b \div 4
      e == b % 4
      f == (b + 8) \div 25
      g == (b - f + 1) \div 3
      h == (19 * a + b - d - g + 15) % 30
      i == c \div 4
      k == c % 4
      l == (32 + 2 * e + 2 * i - h - k) % 7
      m == (a + 11 * h + 22 * l) \div 451
      mes == (h + l - 7 * m + 114) \div 31
      dia == ((h + l - 7 * m + 114) % 31) + 1
  IN <<year, mes, dia>>

(* date - timedelta(days=1) *)
DiaAnterior(f) ==
  IF f[3] > 1 THEN <<f[1], f[2], f[3] - 1>>
  ELSE IF f[2] > 1 THEN <<f[1], f[2] - 1, DaysIn(f[1], f[2] - 1)>>
  ELSE <<f[1] - 1, 12, 31>>

(* date - timedelta(days=n) *)
RECURSIVE MenosDias(_, _)
MenosDias(f, n) == IF n = 0 THEN f ELSE MenosDias(DiaAnterior(f), n - 1)

(* Holy Thursday taken two days before Easter. *)
calcular_jueves_santo_dos_dias(year) == MenosDias(calcular_pascua(year), 2)

calcular_jueves_santo(year) == MenosDias(calcular_pascua(year), 3)
calcular_viernes_santo(year) == MenosDias(calcular_pascua(year), 2)

NoDate == <<0, 0, 0>>

Calcular ==
  /\ kPc = "start"
  /\ kPascua' = calcular_pascua(kYear)
  /\ kJueves' = calcular_jueves_santo(kYear)
  /\ kViernes' = calcular_viernes_santo(kYear)
  /\ kPc' = "done"
  /\ UNCHANGED <<kYear, notPascua>>

InitPascua ==
  /\ kYear \in PascuaYears
  /\ kPascua = NoDate
  /\ kJueves = NoDate
  /\ kViernes = NoDate
  /\ kPc = "start"

IdlePascua ==
  /\ kYear = PascuaValidFrom
  /\ kPascua = NoDate
  /\ kJueves = NoDate
  /\ kViernes = NoDate
  /\ kPc = "idle"

NextPascua == Calcular

(* The reference years of the test of pascua.py and their Easter Sundays. *)
AnosTest ==
  (2024 :> <<3, 31>>) @@ (2025 :> <<4, 20>>) @@ (2026 :> <<4, 5>>) @@ (2027 :> <<3, 28>>)
PascuaDe(year) == <<year, AnosTest[year][1], AnosTest[year][2]>>
Calculated == kPc = "done"

(* Holy Thursday and Good Friday of the reference years. *)
JuevesViernesDe ==
  (2024 :> <<<<3, 28>>, <<3, 29>>>>) @@ (2025 :> <<<<4, 17>>, <<4, 18>>>>)
    @@ (2026 :> <<<<4, 2>>, <<4, 3>>>>) @@ (2027 :> <<<<3, 25>>, <<3, 26>>>>)

(* C18 as stated: for the reference years the pair (calcular_jueves_santo, *)
(* calcular_viernes_santo) is the two days immediately preceding Easter    *)
(* Sunday, that is the Friday and the Saturday before it.                  *)
C18_TwoDaysBeforeEaster ==
  (Calculated /\ kYear \in DOMAIN AnosTest) =>
    /\ kJueves = DiaAnterior(DiaAnterior(PascuaDe(kYear)))
    /\ kViernes = DiaAnterior(PascuaDe(kYear))

(* C18 amended: for the reference years the pair is the third and the      *)
(* second day before Easter Sunday, the Thursday and the Friday: 28 and 29 *)
(* March 2024, 17 and 18 April 2025, 2 and 3 April 2026, 25 and 26 March   *)
(* 2027.                                                                   *)
C18_ThursdayAndFridayBeforeEaster ==
  (Calculated /\ kYear \in DOMAIN AnosTest) =>
    /\ kJueves = <<kYear, JuevesViernesDe[kYear][1][1], JuevesViernesDe[kYear][1][2]>>
    /\ kViernes = <<kYear, JuevesViernesDe[kYear][2][1], JuevesViernesDe[kYear][2][2]>>
    /\ kJueves = DiaAnterior(DiaAnterior(DiaAnterior(PascuaDe(kYear))))
    /\ kViernes = DiaAnterior(DiaAnterior(PascuaDe(kYear)))

C18_Witness ==
  Calculated /\ kYear = 2026 /\ kJueves = <<2026, 4, 2>> /\ kViernes = <<2026, 4, 3>>

(* The day of the week of a date of March or later (Zeller's congruence):  *)
(* 0 is Saturday, 1 is Sunday.                                             *)
DiaSemana(f) ==
  LET kk == f[1] % 100
      jj == f[1] \div 100
  IN (f[3] + (13 * (f[2] + 1)) \div 5 + kk + kk \div 4 + jj \div 4 + 5 * jj) % 7

(* C19: calcular_pascua returns 31 March 2024, 20 April 2025, 5 April 2026 *)
(* and 28 March 2027, and for every year of the range a date of the        *)
(* calendar between 22 March and 25 April, which is a Sunday.              *)
C19_EasterSunday ==
  Calculated =>
    /\ kYear \in DOMAIN AnosTest => kPascua = PascuaDe(kYear)
    /\ kPascua[1] = kYear
    /\ ValidDate(kPascua)
    /\ FechaLeq(<<kYear, 3, 22>>, kPascua) /\ FechaLeq(kPascua, <<kYear, 4, 25>>)
    /\ DiaSemana(kPascua) = 1

C19_Witness == Calculated /\ kYear = 2025 /\ kPascua = <<2025, 4, 20>>

(***************************************************************************)
(* Part 9 (specification SpecNorm): utils/normalizer.py, the canonical key *)
(* of a municipality name.  A name is the sequence of its characters; the  *)
(* only white space of the names is the blank.                             *)
(***************************************************************************)
Mayusculas ==
  <<"A", "B", "C", "D", "E", "F", "G", "H", "I", "J", "K", "L", "M",
    "N", "O", "P", "Q", "R", "S", "T", "U", "V", "W", "X", "Y", "Z", "È">>
Minusculas ==
  <<"a", "b", "c", "d", "e", "f", "g", "h", "i", "j", "k", "l", "m",
    "n", "o", "p", "q", "r", "s", "t", "u", "v", "w", "x", "y", "z", "è">>

(* str.lower and str.upper of one character. *)
ToLower(c) ==
  IF \E i \in DOMAIN Mayusculas : Mayusculas[i] = c
  THEN Minusculas[CHOOSE i \in DOMAIN Mayusculas : Mayusculas[i] = c]
  ELSE c
ToUpper(c) ==
  IF \E i \in DOMAIN Minusculas : Minusculas[i] = c
  THEN Mayusculas[CHOOSE i \in DOMAIN Minusculas : Minusculas[i] = c]
  ELSE c

(* str.lower() and str.capitalize(). *)
str_lower(t) == [i \in DOMAIN t |-> ToLower(t[i])]
str_capitalize(t) ==
  [i \in DOMAIN t |-> IF i = 1 THEN ToUpper(t[i]) ELSE ToLower(t[i])]

(* remove_accents: the combining marks of the NFD form are dropped. *)
remove_accents(t) ==
  [i \in DOMAIN t |->
     CASE t[i] = "è" -> "e" [] t[i] = "È" -> "E" [] OTHER -> t[i]]

ARTICULOS_es == << <<"e", "l">>, <<"l", "a">>, <<"l", "o", "s">>, <<"l", "a", "s">> >>
ARTICULOS_ca ==
  << <<"e", "l">>, <<"l", "a">>, <<"e", "l", "s">>, <<"l", "e", "s">>,
     <<"l", "'">>, <<"d", "'">> >>

(* The articles of the pattern of resolve_comma_inversion:                 *)
(*   ^(.+?),\s+(el|la|los|las|els|les|l'|d')$   with re.IGNORECASE.        *)
InversionArticulos ==
  { <<"e", "l">>, <<"l", "a">>, <<"l", "o", "s">>, <<"l", "a", "s">>,
    <<"e", "l", "s">>, <<"l", "e", "s">>, <<"l", "'">>, <<"d", "'">> }

AllBlank(t) == \A i \in DOMAIN t : t[i] = " "

(* The positions of a comma at which the pattern matches: a base of one    *)
(* character or more before it, blanks and then an article up to the end   *)
(* after it.  The article has no comma, so there is one such position at   *)
(* most.                                                                   *)
InversionAt(nombre) ==
  {i \in 2..Len(nombre) :
     /\ nombre[i] = ","
     /\ \E a \in InversionArticulos :
          LET n == Len(nombre) - i - Len(a) IN
            /\ n >= 1
            /\ AllBlank(SubSeq(nombre, i + 1, i + n))
            /\ str_lower(SubSeq(nombre, i + n + 1, Len(nombre))) = a}

(* The article moved to the front and dropped: the base alone. *)
resolve_comma_inversion_sin_articulo(nombre) ==
  IF InversionAt(nombre) = {} THEN nombre
  ELSE LET i == CHOOSE k \in InversionAt(nombre) : TRUE
       IN Strip(SubSeq(nombre, 1, i - 1))

resolve_comma_inversion(nombre) ==
  IF InversionAt(nombre) = {} THEN nombre
  ELSE LET i == CHOOSE k \in InversionAt(nombre) : TRUE
           base == Strip(SubSeq(nombre, 1, i - 1))
           articulo == Strip(SubSeq(nombre, i + 1, Len(nombre)))
           articulo_cap == str_capitalize(articulo)
       IN IF str_lower(articulo) \in {<<"l", "'">>, <<"d", "'">>}
          THEN articulo_cap \o base
          ELSE articulo_cap \o <<" ">> \o base

(* re.sub('^' + articulo + '\s+', '', nombre): the article at the start    *)
(* of the name and the blanks after it, one or more, are removed.          *)
RECURSIVE LStrip(_)
LStrip(t) == IF t # <<>> /\ Head(t) = " " THEN LStrip(Tail(t)) ELSE t

QuitarArticulo(articulo, nombre) ==
  IF /\ Len(nombre) > Len(articulo)
     /\ str_lower(SubSeq(nombre, 1, Len(articulo))) = articulo
     /\ nombre[Len(articulo) + 1] = " "
  THEN LStrip(SubSeq(nombre, Len(articulo) + 1, Len(nombre)))
  ELSE nombre

(* for articulo in ARTICULOS['es'] + ARTICULOS['ca']: one pass over the    *)
(* list, each article tried once in its turn.                              *)
RECURSIVE QuitarArticulos(_, _)
QuitarArticulos(articulos, nombre) ==
  IF articulos = <<>> THEN nombre
  ELSE QuitarArticulos(Tail(articulos), QuitarArticulo(Head(articulos), nombre))

(* re.sub('\s+', ' ', nombre) *)
RECURSIVE Collapse(_)
Collapse(t) ==
  IF Len(t) < 2 THEN t
  ELSE IF t[1] = " " /\ t[2] = " " THEN Collapse(Tail(t))
  ELSE <<Head(t)>> \o Collapse(Tail(t))

normalize_search(nombre) ==
  IF nombre = <<>> THEN <<>>
  ELSE LET resuelto == resolve_comma_inversion(Strip(nombre))
           sin_acentos == remove_accents(str_lower(resuelto))
           sin_articulos == QuitarArticulos(ARTICULOS_es \o ARTICULOS_ca, sin_acentos)
       IN Strip(Collapse(sin_articulos))

(* The names normalized: one to MaxTokens words, each joined to the next   *)
(* by a blank or by a comma and a blank.                                   *)
MaxTokens == 3
NormTokens ==
  { <<"e", "l">>, <<"E", "l">>, <<"l", "a">>, <<"l", "o", "s">>, <<"l", "'">>,
    <<"E", "j", "i", "d", "o">>, <<"v", "a", "l", "l", "è", "s">> }
Separadores == { <<" ">>, <<",", " ">> }

RECURSIVE NombresDe(_)
NombresDe(n) ==
  IF n = 1 THEN NormTokens
  ELSE NombresDe(n - 1) \cup
       {t \o s \o w : t \in NombresDe(n - 1), s \in Separadores, w \in NormTokens}
Nombres == NombresDe(MaxTokens)

NoKey == <<"?">>

Normalizar ==
  /\ nPc = "idle"
  /\ nResuelto' = resolve_comma_inversion(nNombre)
  /\ nClave' = normalize_search(nNombre)
  /\ nPc' = "done"
  /\ UNCHANGED <<nNombre, notNorm>>

InitNorm ==
  /\ nNombre \in Nombres
  /\ nResuelto = NoKey
  /\ nClave = NoKey
  /\ nPc = "idle"

IdleNorm ==
  /\ nNombre = <<>>
  /\ nResuelto = NoKey
  /\ nClave = NoKey
  /\ nPc = "idle"

NextNorm == Normalizar

Normalized == nPc = "done"

(* C21: the canonical key of a canonical key is the key itself. *)
C21_CanonicalizeIdempotent ==
  Normalized => normalize_search(nClave) = nClave

(***************************************************************************)
(* Part 10 (specification SpecMatch): the fuzzy matcher of                 *)
(* utils/normalizer.py.  fRapidfuzz is RAPIDFUZZ_AVAILABLE: the scorer is  *)
(* fuzz.ratio of rapidfuzz when the package is installed and               *)
(* difflib.SequenceMatcher when it is not.  A score is the fraction        *)
(* num/den: fuzz.ratio returns a float, the difflib branch an int.         *)
(***************************************************************************)
Max(x, y) == IF x >= y THEN x ELSE y
Min(x, y) == IF x <= y THEN x ELSE y

(* The length of the longest common subsequence of a and b, row by row:    *)
(* prev and fila hold the columns 0..Len(b) of two consecutive rows.  The  *)
(* rows end when the whole of b is a subsequence already.                  *)
RECURSIVE LcsFila(_, _, _, _)
LcsFila(c, b, prev, fila) ==
  IF Len(fila) = Len(b) + 1 THEN fila
  ELSE LET j == Len(fila)
           v == IF c = b[j] THEN prev[j] + 1 ELSE Max(prev[j + 1], fila[j])
       IN LcsFila(c, b, prev, Append(fila, v))

RECURSIVE LcsFilas(_, _, _)
LcsFilas(a, b, prev) ==
  IF a = <<>> THEN prev[Len(b) + 1]
  ELSE LET fila == LcsFila(Head(a), b, prev, <<0>>)
       IN IF fila[Len(b) + 1] = Len(b) THEN Len(b)
          ELSE LcsFilas(Tail(a), b, fila)

(* rapidfuzz.fuzz.ratio: the normalized Indel similarity,                  *)
(* 100 * 2 * lcs / (len(a) + len(b)), and 100 for two empty strings.       *)
fuzz_ratio(a, b) ==
  IF Len(a) + Len(b) = 0 THEN [num |-> 100, den |-> 1]
  ELSE [num |-> 200 * LcsFilas(a, b, [j \in 1..(Len(b) + 1) |-> 0]),
        den |-> Len(a) + Len(b)]

(* SequenceMatcher.find_longest_match without junk: the longest block      *)
(* a[i..i+k-1] = b[j..j+k-1]; of the longest ones the one that starts      *)
(* earliest in a, and of those the one that starts earliest in b.          *)
find_longest_match(a, b) ==
  LET Block(i, j, k) == SubSeq(a, i, i + k - 1) = SubSeq(b, j, j + k - 1)
      Has(k) == \E i \in 1..(Len(a) - k + 1), j \in 1..(Len(b) - k + 1) : Block(i, j, k)
      ks == {k \in 1..Min(Len(a), Len(b)) : Has(k)}
  IN IF ks = {} THEN [i |-> 1, j |-> 1, k |-> 0]
     ELSE LET k == CHOOSE x \in ks : \A y \in ks : y <= x
              is == {i \in 1..(Len(a) - k + 1) :
                       \E j \in 1..(Len(b) - k + 1) : Block(i, j, k)}
              i == CHOOSE x \in is : \A y \in is : x <= y
              js == {j \in 1..(Len(b) - k + 1) : Block(i, j, k)}
              j == CHOOSE x \in js : \A y \in js : x <= y
          IN [i |-> i, j |-> j, k |-> k]

(* The sum of the sizes of SequenceMatcher.get_matching_blocks: the        *)
(* longest block, then the same to its left and to its right.              *)
RECURSIVE matching_size(_, _)
matching_size(a, b) ==
  LET m == find_longest_match(a, b)
  IN IF m.k = 0 THEN 0
     ELSE m.k + matching_size(SubSeq(a, 1, m.i - 1), SubSeq(b, 1, m.j - 1))
              + matching_size(SubSeq(a, m.i + m.k, Len(a)),
                              SubSeq(b, m.j + m.k, Len(b)))

(* int(SequenceMatcher(None, a, b).ratio() * 100), ratio() = 2.0 * M / T   *)
(* and 1.0 when T = 0.                                                     *)
difflib_ratio(a, b) ==
  IF Len(a) + Len(b) = 0 THEN [num |-> 100, den |-> 1]
  ELSE [num |-> (200 * matching_size(a, b)) \div (Len(a) + Len(b)), den |-> 1]

(* The score of two canonical keys in the build at hand. *)
Score(rapidfuzz, a, b) == IF rapidfuzz THEN fuzz_ratio(a, b) ELSE difflib_ratio(a, b)

ScoreGeq(s, threshold) == s.num >= threshold * s.den
ScoreGreater(s, t) == s.num * t.den > t.num * s.den

(* The lower score first: the order of SortByScore upside down. *)
RECURSIVE SortByScoreAscending(_)
SortByScoreAscending(l) ==
  IF l = <<>> THEN l
  ELSE LET rest == SortByScoreAscending(SubSeq(l, 1, Len(l) - 1))
           x == l[Len(l)]
           n == Cardinality({i \in DOMAIN rest : ~ScoreGreater(rest[i].score, x.score)})
       IN SubSeq(rest, 1, n) \o <<x>> \o SubSeq(rest, n + 1, Len(rest))

(* list.sort(key=score, reverse=True), and the order in which              *)
(* process.extract returns its results: the higher score first, equal      *)
(* scores in the order of the list.                                        *)
RECURSIVE SortByScore(_)
SortByScore(l) ==
  IF l = <<>> THEN l
  ELSE LET rest == SortByScore(SubSeq(l, 1, Len(l) - 1))
           x == l[Len(l)]
           n == Cardinality({i \in DOMAIN rest : ~ScoreGreater(x.score, rest[i].score)})
       IN SubSeq(rest, 1, n) \o <<x>> \o SubSeq(rest, n + 1, Len(rest))

Take(l, limit) == SubSeq(l, 1, Min(limit, Len(l)))

fuzzy_match(rapidfuzz, query, candidates, threshold, limit) ==
  IF query = <<>> \/ candidates = <<>> THEN <<>>
  ELSE
    LET query_normalized == normalize_search(query)
        candidates_normalized == [i \in DOMAIN candidates |-> normalize_search(candidates[i])]
        index(c) == CHOOSE i \in DOMAIN candidates :
                      /\ candidates_normalized[i] = c
                      /\ \A j \in 1..(i - 1) : candidates_normalized[j] # c
        scored == [i \in DOMAIN candidates |->
                     [candidate |-> candidates[i],
                      normalized |-> candidates_normalized[i],
                      score |-> Score(rapidfuzz, query_normalized, candidates_normalized[i])]]
        reaches(m) == ScoreGeq(m.score, threshold)
    IN IF rapidfuzz
       THEN LET results == Take(SortByScore(scored), limit)
                kept == SelectSeq(results, reaches)
            IN [i \in DOMAIN kept |->
                  [candidate |-> candidates[index(kept[i].normalized)],
                   score |-> kept[i].score]]
       ELSE LET scores == SelectSeq(scored, reaches)
                sorted == Take(SortByScore(scores), limit)
            IN [i \in DOMAIN sorted |->
                  [candidate |-> sorted[i].candidate, score |-> sorted[i].score]]

NoMatch == <<"None">>

find_best_match(rapidfuzz, query, candidates, threshold) ==
  LET matches == fuzzy_match(rapidfuzz, query, candidates, threshold, 1)
  IN IF matches # <<>> THEN matches[1].candidate ELSE NoMatch

are_equivalent(rapidfuzz, nombre1, nombre2, threshold) ==
  IF nombre1 = <<>> \/ nombre2 = <<>> THEN FALSE
  ELSE LET norm1 == normalize_search(nombre1)
           norm2 == normalize_search(nombre2)
       IN IF norm1 = norm2 THEN TRUE
          ELSE ScoreGeq(Score(rapidfuzz, norm1, norm2), threshold)

EL_EJIDO ==
  <<"E", "l", " ", "E", "j", "i", "d", "o">>
EJIDO_EL ==
  <<"E", "j", "i", "d", "o", ",", " ", "e", "l">>
SANT_CUGAT ==
  <<"S", "a", "n", "t", " ", "C", "u", "g", "a", "t", " ", "d", "e",
  "l", " ", "V", "a", "l", "l", "è", "s">>
BARCELONA ==
  <<"B", "a", "r", "c", "e", "l", "o", "n", "a">>
SAN_CUGAT_VALLES ==
  <<"s", "a", "n", " ", "c", "u", "g", "a", "t", " ", "v", "a", "l",
  "l", "e", "s">>

(* The names matched: the names of the tests of the module and short       *)
(* names over three letters.                                               *)
MaxCandidates == 2
Queries ==
  { <<>>, <<"a", "b">>, <<"a", "b", "a">>, <<"b", "c", "a">>, EL_EJIDO,
    SAN_CUGAT_VALLES }
CandidateNames ==
  { <<"a", "b", "c">>, <<"a", "b", "d">>, <<"b", "c", "a">>, <<"a", "b", "a">>,
    EL_EJIDO, EJIDO_EL, SANT_CUGAT, BARCELONA }
Thresholds == {0, 50, 70, 100}

RECURSIVE CandidateListsOf(_)
CandidateListsOf(n) ==
  IF n = 0 THEN {<<>>}
  ELSE CandidateListsOf(n - 1) \cup
       {Append(l, c) : l \in {x \in CandidateListsOf(n - 1) : Len(x) = n - 1},
                       c \in CandidateNames}
CandidateLists == CandidateListsOf(MaxCandidates)

NoEquiv == [nombre1 |-> <<>>, nombre2 |-> <<>>, result |-> FALSE]

FindBestMatch ==
  /\ fPc = "idle"
  /\ fBest' = find_best_match(fRapidfuzz, fQuery, fCandidates, fThreshold)
  /\ fPc' = "found"
  /\ UNCHANGED <<fQuery, fCandidates, fThreshold, fRapidfuzz, fEquiv, notMatch>>

AreEquivalent ==
  /\ fPc = "idle"
  /\ \E i \in DOMAIN fCandidates :
       fEquiv' = [nombre1 |-> fQuery, nombre2 |-> fCandidates[i],
                  result |-> are_equivalent(fRapidfuzz, fQuery, fCandidates[i],
                                            fThreshold)]
  /\ fPc' = "compared"
  /\ UNCHANGED <<fQuery, fCandidates, fThreshold, fRapidfuzz, fBest, notMatch>>

InitMatch ==
  /\ fQuery \in Queries
  /\ fCandidates \in CandidateLists
  /\ fThreshold \in Thresholds
  /\ fRapidfuzz \in BOOLEAN
  /\ fBest = NoMatch
  /\ fEquiv = NoEquiv
  /\ fPc = "idle"

IdleMatch ==
  /\ fQuery = <<>>
  /\ fCandidates = <<>>
  /\ fThreshold = 0
  /\ fRapidfuzz = FALSE
  /\ fBest = NoMatch
  /\ fEquiv = NoEquiv
  /\ fPc = "idle"

NextMatch == FindBestMatch \/ AreEquivalent

(***************************************************************************)
(* Part 11 (specification SpecPar): core/parallel.py.  Every year has a    *)
(* worker; qOutcome says how the search of a year ends: with a URL, with   *)
(* None, with an exception, or not within the timeout of as_completed.     *)
(***************************************************************************)
MaxYears == 3
FirstSearchYear == 2025
SearchYears == FirstSearchYear..(FirstSearchYear + MaxYears - 1)
SearchOutcomes == {"url", "none", "raise", "slow"}
UrlOfYear(year) == <<"url", year>>

(* None as a result of a worker; a result is the pair (year, url). *)
NoResult == <<>>

(* worker(year) of parallel_search_years. *)
worker(year) ==
  IF qOutcome[year] = "url" THEN <<year, UrlOfYear(year)>> ELSE NoResult

NoReturn == [raised |-> "none", dict |-> {}]

(* for future in as_completed(...): the result of a worker that has        *)
(* finished is appended, in the order in which the workers finish.         *)
future_result(year) ==
  /\ qPc = "running"
  /\ year \in qPending
  /\ qOutcome[year] # "slow"
  /\ qResults' = Append(qResults, worker(year))
  /\ qPending' = qPending \ {year}
  /\ UNCHANGED <<qOutcome, qReturn, qPc, notPar>>

(* as_completed(..., timeout=timeout) raises TimeoutError when a worker    *)
(* has not finished in time; parallel_requests does not catch it.          *)
as_completed_timeout ==
  /\ qPc = "running"
  /\ qPending # {}
  /\ \A year \in qPending : qOutcome[year] = "slow"
  /\ qReturn' = [raised |-> "TimeoutError", dict |-> {}]
  /\ qPc' = "raised"
  /\ UNCHANGED <<qOutcome, qPending, qResults, notPar>>

(* return {year: url for year, url in results if year and url}: the pair   *)
(* is unpacked before the filter, and None cannot be unpacked.             *)
parallel_search_years_return ==
  /\ qPc = "running"
  /\ qPending = {}
  /\ IF \E i \in DOMAIN qResults : qResults[i] = NoResult
     THEN /\ qReturn' = [raised |-> "TypeError", dict |-> {}]
          /\ qPc' = "raised"
     ELSE /\ qReturn' = [raised |-> "none",
                         dict |-> {qResults[i] : i \in DOMAIN qResults}]
          /\ qPc' = "returned"
  /\ UNCHANGED <<qOutcome, qPending, qResults, notPar>>

InitPar ==
  /\ qOutcome \in [SearchYears -> SearchOutcomes]
  /\ qPending = SearchYears
  /\ qResults = <<>>
  /\ qReturn = NoReturn
  /\ qPc = "running"

IdlePar ==
  /\ qOutcome = [year \in SearchYears |-> "url"]
  /\ qPending = {}
  /\ qResults = <<>>
  /\ qReturn = NoReturn
  /\ qPc = "idle"

NextPar ==
  \/ \E year \in SearchYears : future_result(year)
  \/ as_completed_timeout
  \/ parallel_search_years_return

(* C26: when every search ends (with a URL, with None or with an           *)
(* exception), parallel_search_years returns, without raising, the dict of *)
(* the years whose search gave a URL.                                      *)
C26_ReturnsFoundYears ==
  (qPc \in {"returned", "raised"} /\ \A year \in SearchYears : qOutcome[year] # "slow") =>
    /\ qPc = "returned"
    /\ qReturn.dict =
         {<<year, UrlOfYear(year)>> : year \in {y \in SearchYears : qOutcome[y] = "url"}}

(***************************************************************************)
(* Part 12 (specification SpecInst): BaseScraper.scrape called several     *)
(* times on one instance of an adapter that does not override it.          *)
(* iFestivos is self.festivos, iMetadata is                                *)
(* self.metadata ('fuente' and 'num_festivos'), iReturned is the list the  *)
(* most recent call returned and iLast says how that call ended.           *)
(***************************************************************************)
MaxCalls == 2
SourceUrl == "url"
NoReturned == <<>>

(* url = self.get_source_url(); if not url: return [] *)
scrape_no_url ==
  /\ iCalls < MaxCalls
  /\ iReturned' = <<>>
  /\ iLast' = "returned"
  /\ iCalls' = iCalls + 1
  /\ UNCHANGED <<iAdapter, iYear, iFestivos, iMetadata, notInst>>

(* get_source_url of a region scraper raises ValueError when no tier has   *)
(* the URL: scrape() does not catch it and returns nothing.                *)
scrape_raises ==
  /\ iCalls < MaxCalls
  /\ iReturned' = NoReturned
  /\ iLast' = "raised"
  /\ iCalls' = iCalls + 1
  /\ UNCHANGED <<iAdapter, iYear, iFestivos, iMetadata, notInst>>

(* content = self.fetch_content(url); if not content: return [] *)
scrape_no_content ==
  /\ iCalls < MaxCalls
  /\ iMetadata' = [iMetadata EXCEPT !.fuente = SourceUrl]
  /\ iReturned' = <<>>
  /\ iLast' = "returned"
  /\ iCalls' = iCalls + 1
  /\ UNCHANGED <<iAdapter, iYear, iFestivos, notInst>>

(* The document is parsed and the valid records are kept, counted and      *)
(* returned.                                                               *)
scrape_parsed(items) ==
  LET festivos_validos == Adapter_scrape(iAdapter, iYear, items) IN
  /\ iCalls < MaxCalls
  /\ iFestivos' = festivos_validos
  /\ iMetadata' = [fuente |-> SourceUrl, num_festivos |-> Len(festivos_validos)]
  /\ iReturned' = festivos_validos
  /\ iLast' = "returned"
  /\ iCalls' = iCalls + 1
  /\ UNCHANGED <<iAdapter, iYear, notInst>>

(* BaseScraper.__init__ *)
InitInst ==
  /\ iAdapter \in {"canarias", "pais_vasco"}
  /\ iYear \in ScrapeYears
  /\ iFestivos = <<>>
  /\ iMetadata = [fuente |-> None, num_festivos |-> 0]
  /\ iReturned = NoReturned
  /\ iLast = "none"
  /\ iCalls = 0

IdleInst ==
  /\ iAdapter = "canarias"
  /\ iYear \in {y \in ScrapeYears : \A y2 \in ScrapeYears : y <= y2}
  /\ iFestivos = <<>>
  /\ iMetadata = [fuente |-> None, num_festivos |-> 0]
  /\ iReturned = NoReturned
  /\ iLast = "none"
  /\ iCalls = MaxCalls

NextInst ==
  \/ scrape_no_url
  \/ scrape_raises
  \/ scrape_no_content
  \/ \E items \in ItemLists : scrape_parsed(items)

(* C29: after a scrape() that returned, self.festivos is the list it       *)
(* returned and metadata['num_festivos'] is the length of that list.       *)
C29_FestivosIsLastReturned ==
  iLast = "returned" =>
    /\ iFestivos = iReturned
    /\ iMetadata.num_festivos = Len(iReturned)

(***************************************************************************)
(* The specifications.                                                     *)
(***************************************************************************)
IdleLoc ==
  /\ loc = "boe"
  /\ file = [y \in Years |-> NoEntry]
  /\ mem = file
  /\ last = NoCall
  /\ op = "none"

IdleRest == IdleDisc /\ IdleParse /\ IdleOrch /\ IdleMuni /\ IdleScrape /\ IdlePascua
    /\ IdleNorm
    /\ IdleMatch
    /\ IdlePar
    /\ IdleInst

Init == InitLoc /\ IdleSave /\ IdleRest
Next == NextLoc
Spec == Init /\ [][Next]_vars

InitSaveSpec == IdleLoc /\ InitSave /\ IdleRest
SpecSave == InitSaveSpec /\ [][NextSave]_vars

InitDiscSpec == IdleLoc /\ IdleSave /\ InitDisc /\ IdleParse /\ IdleOrch /\ IdleMuni /\ IdleScrape /\ IdlePascua
    /\ IdleNorm
    /\ IdleMatch
    /\ IdlePar
    /\ IdleInst
SpecDisc == InitDiscSpec /\ [][NextDisc]_vars

InitParseSpec == IdleLoc /\ IdleSave /\ IdleDisc /\ InitParse /\ IdleOrch /\ IdleMuni /\ IdleScrape /\ IdlePascua
    /\ IdleNorm
    /\ IdleMatch
    /\ IdlePar
    /\ IdleInst
SpecParse == InitParseSpec /\ [][NextParse]_vars

InitOrchSpec == IdleLoc /\ IdleSave /\ IdleDisc /\ IdleParse /\ InitOrch /\ IdleMuni /\ IdleScrape /\ IdlePascua
    /\ IdleNorm
    /\ IdleMatch
    /\ IdlePar
    /\ IdleInst
SpecOrch == InitOrchSpec /\ [][NextOrch]_vars

InitMuniSpec ==
  IdleLoc /\ IdleSave /\ IdleDisc /\ IdleParse /\ IdleOrch /\ InitMuni /\ IdleScrape /\ IdlePascua
    /\ IdleNorm
    /\ IdleMatch
    /\ IdlePar
    /\ IdleInst
SpecMuni == InitMuniSpec /\ [][NextMuni]_vars

InitScrapeSpec ==
  IdleLoc /\ IdleSave /\ IdleDisc /\ IdleParse /\ IdleOrch /\ IdleMuni /\ InitScrape
    /\ IdlePascua
    /\ IdleNorm
    /\ IdleMatch
    /\ IdlePar
    /\ IdleInst
SpecScrape == InitScrapeSpec /\ [][NextScrape]_vars

InitPascuaSpec ==
  IdleLoc /\ IdleSave /\ IdleDisc /\ IdleParse /\ IdleOrch /\ IdleMuni /\ IdleScrape
    /\ InitPascua
    /\ IdleNorm
    /\ IdleMatch
    /\ IdlePar
    /\ IdleInst
SpecPascua == InitPascuaSpec /\ [][NextPascua]_vars

InitNormSpec ==
  IdleSave /\ IdleDisc /\ IdleParse /\ IdleOrch /\ IdleMuni /\ IdleScrape
    /\ IdlePascua /\ IdleLoc
    /\ InitNorm
    /\ IdleMatch
    /\ IdlePar
    /\ IdleInst
SpecNorm == InitNormSpec /\ [][NextNorm]_vars

InitMatchSpec ==
  IdleSave /\ IdleDisc /\ IdleParse /\ IdleOrch /\ IdleMuni /\ IdleScrape
    /\ IdlePascua /\ IdleNorm /\ IdleLoc
    /\ InitMatch
    /\ IdlePar
    /\ IdleInst
SpecMatch == InitMatchSpec /\ [][NextMatch]_vars

InitParSpec ==
  IdleSave /\ IdleDisc /\ IdleParse /\ IdleOrch /\ IdleMuni /\ IdleScrape
    /\ IdlePascua /\ IdleNorm /\ IdleMatch /\ IdleLoc
    /\ InitPar
    /\ IdleInst
SpecPar == InitParSpec /\ [][NextPar]_vars

InitInstSpec ==
  IdleSave /\ IdleDisc /\ IdleParse /\ IdleOrch /\ IdleMuni /\ IdleScrape
    /\ IdlePascua /\ IdleNorm /\ IdleMatch /\ IdlePar /\ IdleLoc
    /\ InitInst
SpecInst == InitInstSpec /\ [][NextInst]_vars

(***************************************************************************)
(* Claims on the source locators (specification Spec).                     *)
(***************************************************************************)
KnownTable(l) == CASE l = "boe" -> BOE_KNOWN_URLS
                   [] l = "canarias" -> CANARIAS_KNOWN_URLS
                   [] l = "andalucia" -> ANDALUCIA_KNOWN_URLS
                   [] OTHER -> <<>>

Called == last.tier # "none"
KnownAndCached == Called /\ last.year \in DOMAIN KnownTable(loc) /\ last.hadCache
ReturnedKnown ==
  /\ last.outcome = "url"
  /\ last.url = KnownTable(loc)[last.year]
  /\ ~last.disc

SameYearAfterSavedDiscovery ==
  /\ loc = "boe"
  /\ last.tier = "discover" /\ last.saved
  /\ op' = "get_url" /\ last'.year = last.year

C3_OnlyValidatedEntries == \A y \in Years : file[y].origin # "bad"

(* C6: a call with no Known entry, no Cached entry and no discovered URL   *)
(* raises; it never returns normally.                                      *)
C6_UnresolvedRaises ==
  (Called /\ ~last.hadKnown /\ ~last.hadCache /\ ~last.found)
     => last.outcome = "raised"

Compared == fPc = "compared"
Found == fPc = "found"

(* The score of the query and of candidate i on their canonical keys. *)
ScoreOf(i) ==
  Score(fRapidfuzz, normalize_search(fQuery), normalize_search(fCandidates[i]))

(* C22: the score of two canonical keys is the same in both orders and is  *)
(* 100 for a key and itself, so are_equivalent gives the same answer for   *)
(* (a, b) and (b, a) and is true of a non-empty name and itself.           *)
C22_SimilaritySymmetric ==
  Compared =>
    LET norm1 == normalize_search(fEquiv.nombre1)
        norm2 == normalize_search(fEquiv.nombre2)
    IN /\ Score(fRapidfuzz, norm1, norm2) = Score(fRapidfuzz, norm2, norm1)
       /\ Score(fRapidfuzz, norm2, norm2).num = 100 * Score(fRapidfuzz, norm2, norm2).den
       /\ fEquiv.result =
            are_equivalent(fRapidfuzz, fEquiv.nombre2, fEquiv.nombre1, fThreshold)
       /\ (fEquiv.nombre1 = fEquiv.nombre2 /\ fEquiv.nombre1 # <<>>) => fEquiv.result

(* C23: of the candidates that share the highest score the winner is a     *)
(* shortest one, and the winner is the same when the list of candidates is *)
(* given in the opposite order.                                            *)
C23_TieBreakDeterministic ==
  (Found /\ fBest # NoMatch) =>
    LET n == Len(fCandidates)
        reversed == [i \in 1..n |-> fCandidates[n + 1 - i]]
        top == {i \in 1..n : \A j \in 1..n : ~ScoreGreater(ScoreOf(j), ScoreOf(i))}
    IN /\ \A i \in top : Len(fBest) <= Len(fCandidates[i])
       /\ fBest = find_best_match(fRapidfuzz, fQuery, reversed, fThreshold)

(* What find_best_match returns for the candidates that reach the          *)
(* threshold: a member of the list with the highest score, or nothing when *)
(* there is none; and a candidate with the canonical key of the query when *)
(* the list has one.                                                       *)
BestOfReaching ==
  LET n == Len(fCandidates)
      reach == {i \in 1..n : ScoreGeq(ScoreOf(i), fThreshold)}
      exact == {i \in 1..n : normalize_search(fCandidates[i]) = normalize_search(fQuery)}
  IN /\ (fBest = NoMatch) <=> (reach = {})
     /\ fBest # NoMatch =>
          \E i \in reach : /\ fCandidates[i] = fBest
                           /\ \A j \in 1..n : ~ScoreGreater(ScoreOf(j), ScoreOf(i))
     /\ exact # {} =>
          /\ fBest # NoMatch
          /\ normalize_search(fBest) = normalize_search(fQuery)
     /\ (fQuery = SAN_CUGAT_VALLES /\ fCandidates = <<SANT_CUGAT, BARCELONA>>
           /\ fThreshold = 70) => fBest = SANT_CUGAT

(* C24 as stated: for every query, find_best_match returns a candidate of  *)
(* the highest score at or above the threshold, and None exactly when no   *)
(* candidate reaches the threshold.                                        *)
C24_BestAtOrAboveThreshold == Found => BestOfReaching

(* C24 amended: that holds for every query that is not the empty string;   *)
(* for the empty string find_best_match returns None, threshold 0 and      *)
(* candidates that reach it included.                                      *)
C24_BestForNonEmptyQuery ==
  Found => IF fQuery = <<>> THEN fBest = NoMatch ELSE BestOfReaching

C24_Witness ==
  /\ Found
  /\ fQuery = SAN_CUGAT_VALLES
  /\ fCandidates = <<SANT_CUGAT, BARCELONA>>
  /\ fThreshold = 70
  /\ fBest = SANT_CUGAT

C27_MemoryCacheHoldsOwnWrite ==
  (/\ loc \in {"canarias", "madrid", "galicia"}
   /\ op = "get_url"
   /\ last.tier = "discover"
   /\ last.saved) => mem[last.year].url = last.url

(***************************************************************************)
(* Claims on repeated queries of the orchestrator (specification SpecMuni).*)
(***************************************************************************)
(* C30: a call of get_festivos_municipio leaves festivos_nacionales,       *)
(* festivos_autonomicos and festivos_locales as they were, the same        *)
(* records in the same order, so that what a call returns is what the      *)
(* lists the scrapers left give for its municipality, whatever was asked   *)
(* before.                                                                 *)
C30_StoredListsUnchanged ==
  [][mPc' = "returned" =>
       /\ mNac' = mNac
       /\ mAuto' = mAuto
       /\ mLocales' = mLocales
       /\ mLocales' = Locales_parse_festivos(NoName, mDoc)
       /\ mResult' = get_festivos_municipio(mNac', mAuto', mLocales', mMunicipio')]_vars

(* The second query, of a municipality with a local record, after national *)
(* records that the sort of the first query would have reordered.          *)
C30_Witness ==
  /\ Returned
  /\ mCalls = MaxQueries
  /\ mNac = <<Nacional(8, 15), Nacional(12, 25), Nacional(4, 3)>>
  /\ \E i \in DOMAIN mResult : mResult[i].tipo = "local"
  /\ mResult # mNac

====
